---- MODULE Spec2Model ----
(***************************************************************************)
(* Model of the simulation-and-trace pipeline of raliet (src-tauri):       *)
(*   - lib.rs                       debug_transaction                      *)
(*   - core/simulator_debug.rs      simulate_transaction, trace_transaction*)
(*                                  get_cast_trace_quick                   *)
(*   - core/transaction_simulator.rs TransactionSimulator                  *)
(*   - core/trace_formatter.rs      format_tenderly_style, parse_call_trace*)
(*                                                                         *)
(* Spec      : the request orchestration (fork session, RPC calls, trace   *)
(*             capture, assembly), one process per request.                *)
(* SpecParse : parse_call_trace run line by line over bounded inputs.      *)
(***************************************************************************)
EXTENDS Integers, Sequences, FiniteSets, TLC

(***************************************************************************)
(* Bounds of the model.                                                    *)
(***************************************************************************)
\* number of requests that may be in flight together
NumReqs == 2
\* number of lines of a trace text given to parse_call_trace
MaxLines == 3
\* largest number of leading vertical-continuation glyphs on an input line
MaxBars == 1
\* longest topic list handed to decode_event_name
MaxTopics == 2
\* largest number of events of a report handed to format_trace_for_display
MaxEvents == 6

Reqs == 1..NumReqs

(***************************************************************************)
(* Option<T> values.                                                       *)
(***************************************************************************)
None == [some |-> FALSE]
Some(x) == [some |-> TRUE, v |-> x]

(***************************************************************************)
(* Text.  A Rust string is a sequence of glyphs.  The branch markers are   *)
(* two-character substrings that the code only ever matches as a unit, so  *)
(* each is one glyph here; TXT stands for any other non-whitespace         *)
(* character, SP for a whitespace character and NL for the line break.     *)
(***************************************************************************)
VBAR == "VBAR"
MID == "MID"
LAST == "LAST"
SP == "SP"
TXT == "TXT"
NL == "NL"

RECURSIVE trim_start(_)
trim_start(s) ==
    IF s # <<>> /\ Head(s) = SP THEN trim_start(Tail(s)) ELSE s

RECURSIVE trim_end(_)
trim_end(s) ==
    IF s # <<>> /\ s[Len(s)] = SP THEN trim_end(SubSeq(s, 1, Len(s) - 1)) ELSE s

\* str::trim
trim(s) == trim_end(trim_start(s))

\* str::contains
contains(s, g) == \E i \in DOMAIN s : s[i] = g

\* str::find: the position of the first occurrence, counted from 0
find(s, g) ==
    IF contains(s, g)
    THEN Some((CHOOSE i \in DOMAIN s :
                  s[i] = g /\ \A j \in 1..(i - 1) : s[j] # g) - 1)
    ELSE None

\* Option::or_else
or_else(a, b) == IF a.some THEN a ELSE b

\* str::matches(c).count()
matches_count(s, g) == Cardinality({i \in DOMAIN s : s[i] = g})

\* line.contains("├─") || line.contains("└─")
is_call_start(line) == contains(line, MID) \/ contains(line, LAST)

\* &line[..pos] with pos = line.find("├─").or_else(|| line.find("└─"))
before_marker(line) ==
    LET pos == or_else(find(line, MID), find(line, LAST))
    IN  IF pos.some THEN SubSeq(line, 1, pos.v) ELSE <<>>

\* line_depth counting every glyph of the indentation, whitespace included
line_depth_counts_indent(line) == Len(before_marker(line))

\* depth = before_marker.matches('│').count()
line_depth(line) == matches_count(before_marker(line), VBAR)

\* json!({"depth": depth, "trace": current_trace})
node(d, t) == [depth |-> d, trace |-> t]

\* The loop state of parse_call_trace before its first line.
parse_init == [traces |-> <<>>, current_trace |-> <<>>, depth |-> 0]

\* parse_line attaching a continuation line also when no node is open
parse_line_attach_without_node(st, line) ==
    IF trim(line) = <<>>
    THEN st
    ELSE IF is_call_start(line)
    THEN [traces |-> IF st.current_trace # <<>>
                     THEN Append(st.traces, node(st.depth, st.current_trace))
                     ELSE st.traces,
          depth |-> line_depth(line),
          current_trace |-> trim(line)]
    ELSE [st EXCEPT !.current_trace = @ \o <<NL>> \o trim(line)]

\* parse_line skipping only the lines that are empty before trimming
parse_line_keep_whitespace_lines(st, line) ==
    IF line = <<>>
    THEN st
    ELSE IF is_call_start(line)
    THEN [traces |-> IF st.current_trace # <<>>
                     THEN Append(st.traces, node(st.depth, st.current_trace))
                     ELSE st.traces,
          depth |-> line_depth(line),
          current_trace |-> trim(line)]
    ELSE IF st.current_trace # <<>>
    THEN [st EXCEPT !.current_trace = @ \o <<NL>> \o trim(line)]
    ELSE st

\* One iteration of the `for line in lines` loop of parse_call_trace.
parse_line(st, line) ==
    IF trim(line) = <<>>
    THEN st
    ELSE IF is_call_start(line)
    THEN [traces |-> IF st.current_trace # <<>>
                     THEN Append(st.traces, node(st.depth, st.current_trace))
                     ELSE st.traces,
          depth |-> line_depth(line),
          current_trace |-> trim(line)]
    ELSE IF st.current_trace # <<>>
    THEN [st EXCEPT !.current_trace = @ \o <<NL>> \o trim(line)]
    ELSE st

\* parse_end without the push after the loop
parse_end_without_last_push(st) == st.traces

\* The push after the loop ("Don't forget the last trace").
parse_end(st) ==
    IF st.current_trace # <<>>
    THEN Append(st.traces, node(st.depth, st.current_trace))
    ELSE st.traces

RECURSIVE parse_lines(_, _)
parse_lines(st, ls) ==
    IF ls = <<>> THEN st ELSE parse_lines(parse_line(st, Head(ls)), Tail(ls))

\* str::lines(): the pieces of a text between its line breaks; a text that
\* ends in a line break has no empty last line
RECURSIVE lines(_)
lines(text) ==
    IF text = <<>> THEN <<>>
    ELSE IF ~contains(text, NL) THEN <<text>>
    ELSE LET pos == find(text, NL).v
         IN  <<SubSeq(text, 1, pos)>> \o lines(SubSeq(text, pos + 2, Len(text)))

\* parse_call_trace on the text whose lines are ls
parse_call_trace(ls) ==
    [formatted |-> TRUE,
     calls |-> parse_end(parse_lines(parse_init, ls)),
     raw |-> ls]

(***************************************************************************)
(* Amounts (trace_formatter.rs).  A U256 amount is written m * 10^e with a *)
(* small mantissa m that is no multiple of 10 (0 is 0 * 10^0), which keeps *)
(* amounts of up to 78 decimal digits within reach; U256_MAX is the value  *)
(* saturating arithmetic stops at.                                         *)
(***************************************************************************)
amount(m, e) == [m |-> m, e |-> e]
U256_MAX == [max |-> TRUE]
is_max(a) == "max" \in DOMAIN a

RECURSIVE pow10(_)
pow10(n) == IF n = 0 THEN 1 ELSE 10 * pow10(n - 1)

RECURSIVE num_digits(_)
num_digits(m) == IF m < 10 THEN 1 ELSE 1 + num_digits(m \div 10)

\* number of decimal digits of a non-zero amount
digits(a) == num_digits(a.m) + a.e

\* the first nine decimal digits of a non-zero amount
lead9(a) == a.m * pow10(9 - num_digits(a.m))

RECURSIVE normalize(_, _)
normalize(m, e) ==
    IF m = 0 THEN amount(0, 0)
    ELSE IF m % 10 = 0 THEN normalize(m \div 10, e + 1)
    ELSE amount(m, e)

\* a >= 2^128 = 340282366920938463463374607431768211456 (39 digits)
ge_2p128(a) ==
    \/ is_max(a)
    \/ /\ a.m > 0
       /\ \/ digits(a) > 39
          \/ digits(a) = 39 /\ lead9(a) > 340282366

\* a <= 2^256 - 1 = 115792089237316195423570985008687907853269984665640564039457584007913129639935 (78 digits)
fits_u256(a) ==
    \/ a.m = 0
    \/ digits(a) < 78
    \/ digits(a) = 78 /\ lead9(a) <= 115792089

\* a < 10^n
below_pow10(a, n) == a.m = 0 \/ digits(a) <= n

Mantissas == {1, 21, 34, 36, 999}
Exponents == 0..77

\* The amounts of the model.
Amounts ==
    {amount(0, 0)} \cup
    {a \in {amount(m, e) : m \in Mantissas, e \in Exponents} : fits_u256(a)}

\* wei.as_u128(): panics when the amount does not fit in 128 bits
as_u128_panics(wei) == ge_2p128(wei)

\* U256::saturating_mul
saturating_mul(a, b) ==
    IF is_max(a) \/ is_max(b)
    THEN (IF (~is_max(a) /\ a.m = 0) \/ (~is_max(b) /\ b.m = 0)
          THEN amount(0, 0) ELSE U256_MAX)
    ELSE LET p == normalize(a.m * b.m, a.e + b.e)
         IN  IF fits_u256(p) THEN p ELSE U256_MAX

(***************************************************************************)
(* Display strings.  eth_value is the f64 nearest to wei / 1e18: it is 0.0 *)
(* only for wei = 0 and below 0.000001 exactly for wei < 10^12.  The       *)
(* digits that "{:.6}" prints are those of that f64; they are written out  *)
(* here (in millionths of an ether, rounded to the nearest) where they     *)
(* equal the digits of the exact quotient, which is for amounts below      *)
(* 10^15 wei that are not half-way between two millionths.                 *)
(***************************************************************************)
\* wei / 10^12 rounded to the nearest integer, for 10^12 <= wei < 10^15
micros(wei) ==
    IF wei.e >= 12
    THEN Some(wei.m * pow10(wei.e - 12))
    ELSE LET d == pow10(12 - wei.e)
             q == wei.m \div d
             r == wei.m % d
         IN  IF 2 * r = d THEN None
             ELSE Some(IF 2 * r > d THEN q + 1 ELSE q)

\* ether_string with the threshold one decimal place too low
ether_string_threshold_1e7(wei) ==
    IF wei.m = 0
    THEN [form |-> "0 ETH"]
    ELSE IF below_pow10(wei, 11)
    THEN [form |-> "wei", digits |-> wei]
    ELSE [form |-> "ETH", decimals |-> 6,
          micros |-> IF below_pow10(wei, 15) /\ ~below_pow10(wei, 12)
                     THEN micros(wei) ELSE None]

\* The three branches of format_ether on eth_value.
ether_string(wei) ==
    IF wei.m = 0
    THEN [form |-> "0 ETH"]
    ELSE IF below_pow10(wei, 12)
    THEN [form |-> "wei", digits |-> wei]
    ELSE [form |-> "ETH", decimals |-> 6,
          micros |-> IF below_pow10(wei, 15) THEN micros(wei) ELSE None]

\* format_ether: the display string of an amount, or a panic
format_ether(wei) ==
    IF as_u128_panics(wei)
    THEN [panic |-> TRUE]
    ELSE [panic |-> FALSE, v |-> ether_string(wei)]

\* format_gwei: "{:.2} Gwei" of wei.as_u128() as f64 / 1e9, or a panic
format_gwei(wei) ==
    IF as_u128_panics(wei)
    THEN [panic |-> TRUE]
    ELSE [panic |-> FALSE, v |-> [form |-> "Gwei", decimals |-> 2, of |-> wei]]

\* option.map(|g| format_gwei(&g))
map_format_gwei(option) ==
    IF ~option.some THEN [panic |-> FALSE, v |-> None]
    ELSE LET g == format_gwei(option.v)
         IN  IF g.panic THEN [panic |-> TRUE]
             ELSE [panic |-> FALSE, v |-> Some(g.v)]

\* Option::unwrap_or_default
unwrap_or_default(option) == IF option.some THEN option.v ELSE amount(0, 0)

\* calculate_gas_cost
calculate_gas_cost(receipt) ==
    IF receipt.gas_used.some /\ receipt.effective_gas_price.some
    THEN format_ether(saturating_mul(receipt.gas_used.v,
                                     receipt.effective_gas_price.v))
    ELSE [panic |-> FALSE, v |-> [form |-> "Unknown"]]

(***************************************************************************)
(* Event names.  A topic is the 64 hexadecimal digits of an H256.          *)
(***************************************************************************)
TRANSFER_TOPIC ==
    <<"d", "d", "f", "2", "5", "2", "a", "d", "1", "b", "e", "2", "c", "8",
    "9", "b", "6", "9", "c", "2", "b", "0", "6", "8", "f", "c", "3", "7",
    "8", "d", "a", "a", "9", "5", "2", "b", "a", "7", "f", "1", "6", "3",
    "c", "4", "a", "1", "1", "6", "2", "8", "f", "5", "5", "a", "4", "d",
    "f", "5", "2", "3", "b", "3", "e", "f">>

APPROVAL_TOPIC ==
    <<"8", "c", "5", "b", "e", "1", "e", "5", "e", "b", "e", "c", "7", "d",
    "5", "b", "d", "1", "4", "f", "7", "1", "4", "2", "7", "d", "1", "e",
    "8", "4", "f", "3", "d", "d", "0", "3", "1", "4", "c", "0", "f", "7",
    "b", "2", "2", "9", "1", "e", "5", "b", "2", "0", "0", "a", "c", "8",
    "c", "7", "c", "3", "b", "9", "2", "5">>

\* A topic that agrees with the transfer signature in its first 8 digits.
NEAR_TRANSFER_TOPIC ==
    <<"d", "d", "f", "2", "5", "2", "a", "d", "0", "0", "0", "0", "0", "0",
    "0", "0", "0", "0", "0", "0", "0", "0", "0", "0", "0", "0", "0", "0",
    "0", "0", "0", "0", "0", "0", "0", "0", "0", "0", "0", "0", "0", "0",
    "0", "0", "0", "0", "0", "0", "0", "0", "0", "0", "0", "0", "0", "0",
    "0", "0", "0", "0", "0", "0", "0", "0">>

OTHER_TOPIC ==
    <<"e", "1", "f", "f", "f", "c", "c", "4", "9", "2", "3", "d", "0", "4",
    "b", "5", "5", "9", "f", "4", "d", "2", "9", "a", "8", "b", "f", "c",
    "6", "c", "d", "a", "0", "4", "e", "b", "5", "b", "0", "d", "3", "c",
    "4", "6", "0", "7", "5", "1", "c", "2", "4", "0", "2", "c", "5", "c",
    "5", "c", "c", "9", "1", "0", "9", "c">>

Topics == {TRANSFER_TOPIC, APPROVAL_TOPIC, NEAR_TRANSFER_TOPIC, OTHER_TOPIC}

\* format!("{:?}", h256): "0x" and all 64 digits
debug_h256(t) == <<"0", "x">> \o t

\* &s[..n]: panics when s is shorter than n
slice_to(s, n) ==
    IF Len(s) < n THEN [panic |-> TRUE] ELSE [panic |-> FALSE, v |-> SubSeq(s, 1, n)]

\* decode_event_name indexing topics[0] without looking at the length
decode_event_name_no_empty_check(topics) ==
    IF Len(topics) < 1
    THEN [panic |-> TRUE]
    ELSE LET topic0 == debug_h256(topics[1])
             prefix == slice_to(topic0, 10)
         IN  IF topic0 = debug_h256(TRANSFER_TOPIC)
             THEN [panic |-> FALSE, v |-> <<"Transfer(address,address,uint256)">>]
             ELSE IF topic0 = debug_h256(APPROVAL_TOPIC)
             THEN [panic |-> FALSE, v |-> <<"Approval(address,address,uint256)">>]
             ELSE IF prefix.panic THEN [panic |-> TRUE]
             ELSE [panic |-> FALSE, v |-> <<"Event(">> \o prefix.v \o <<"...)">>]

\* decode_event_name: the name as a sequence of string pieces, or a panic
decode_event_name(topics) ==
    IF topics = <<>>
    THEN [panic |-> FALSE, v |-> <<"Unknown Event">>]
    ELSE LET topic0 == debug_h256(topics[1])
             prefix == slice_to(topic0, 10)
         IN  IF topic0 = debug_h256(TRANSFER_TOPIC)
             THEN [panic |-> FALSE, v |-> <<"Transfer(address,address,uint256)">>]
             ELSE IF topic0 = debug_h256(APPROVAL_TOPIC)
             THEN [panic |-> FALSE, v |-> <<"Approval(address,address,uint256)">>]
             ELSE IF prefix.panic THEN [panic |-> TRUE]
             ELSE [panic |-> FALSE, v |-> <<"Event(">> \o prefix.v \o <<"...)">>]

\* format_events: one record per log, in receipt order
format_events(logs) ==
    [i \in DOMAIN logs |->
        [index |-> i - 1,
         name |-> decode_event_name(logs[i].topics),
         topics |-> [j \in DOMAIN logs[i].topics |-> debug_h256(logs[i].topics[j])]]]

(***************************************************************************)
(* Report assembly (trace_formatter.rs).                                   *)
(***************************************************************************)
\* status_string taking every present status for a success
status_string_any_status(status) ==
    IF status.some THEN "Success" ELSE "Failed"

\* if receipt.status == Some(1.into()) { "✓ Success" } else { "✗ Failed" }
status_string(status) ==
    IF status = Some(1) THEN "Success" ELSE "Failed"

\* One log with the transfer signature as its first topic.
TransferLog == [topics |-> <<TRANSFER_TOPIC>>]

\* Transaction details and receipts the forked backend may answer with in
\* the orchestration: one ether or 36 * 10^37 wei sent, 21000 gas at 1 gwei.
Txs == [value : {amount(1, 18), amount(36, 37)}, gas_price : {Some(amount(1, 9))}]
Receipts == [status : {Some(1), Some(0)},
             gas_used : {Some(amount(21, 3))},
             effective_gas_price : {Some(amount(1, 9))},
             logs : {<<TransferLog>>}]

\* format_tenderly_style inserting the call trace in place of the events
format_tenderly_style_trace_replaces_events(tx, receipt, cast_output) ==
    LET value == format_ether(tx.value)
        gasPrice == map_format_gwei(tx.gas_price)
        effectiveGasPrice == map_format_gwei(receipt.effective_gas_price)
        totalCost == calculate_gas_cost(receipt)
        events == format_events(receipt.logs)
        trace == [overview |-> [status |-> status_string(receipt.status)],
                  transactionInfo |-> [value |-> value.v],
                  gasDetails |-> [gasUsed |-> unwrap_or_default(receipt.gas_used),
                                  gasPrice |-> gasPrice.v,
                                  effectiveGasPrice |-> effectiveGasPrice.v,
                                  totalCost |-> totalCost.v],
                  events |-> IF cast_output.some THEN <<>> ELSE events]
    IN  IF \/ value.panic \/ gasPrice.panic \/ effectiveGasPrice.panic
           \/ totalCost.panic
           \/ \E i \in DOMAIN events : events[i].name.panic
        THEN [panic |-> TRUE]
        ELSE [panic |-> FALSE,
              v |-> IF cast_output.some
                    THEN trace @@ [callTrace |-> parse_call_trace(cast_output.v)]
                    ELSE trace]

\* format_tenderly_style: the report document, or a panic of the formatter
format_tenderly_style(tx, receipt, cast_output) ==
    LET value == format_ether(tx.value)
        gasPrice == map_format_gwei(tx.gas_price)
        effectiveGasPrice == map_format_gwei(receipt.effective_gas_price)
        totalCost == calculate_gas_cost(receipt)
        events == format_events(receipt.logs)
        trace == [overview |-> [status |-> status_string(receipt.status)],
                  transactionInfo |-> [value |-> value.v],
                  gasDetails |-> [gasUsed |-> unwrap_or_default(receipt.gas_used),
                                  gasPrice |-> gasPrice.v,
                                  effectiveGasPrice |-> effectiveGasPrice.v,
                                  totalCost |-> totalCost.v],
                  events |-> events]
    IN  IF \/ value.panic \/ gasPrice.panic \/ effectiveGasPrice.panic
           \/ totalCost.panic
           \/ \E i \in DOMAIN events : events[i].name.panic
        THEN [panic |-> TRUE]
        ELSE [panic |-> FALSE,
              v |-> IF cast_output.some
                    THEN trace @@ [callTrace |-> parse_call_trace(cast_output.v)]
                    ELSE trace]

(***************************************************************************)
(* Console rendering (trace_formatter.rs).  The text is the sequence of    *)
(* its lines; a line is written as its section, its kind and the values    *)
(* printed on it.                                                          *)
(***************************************************************************)
\* format_trace_for_display reporting the number of all events as "more"
format_trace_for_display_more_counts_all(trace) ==
    LET banner == << [sec |-> "banner", line |-> "banner"] >>
        overview ==
            IF "overview" \in DOMAIN trace
            THEN << [sec |-> "overview", line |-> "header"],
                    [sec |-> "overview", line |-> "Status",
                     v |-> trace.overview.status] >>
            ELSE <<>>
        tx_info ==
            IF "transactionInfo" \in DOMAIN trace
            THEN << [sec |-> "transactionInfo", line |-> "header"],
                    [sec |-> "transactionInfo", line |-> "Value",
                     v |-> trace.transactionInfo.value] >>
            ELSE <<>>
        gas ==
            IF "gasDetails" \in DOMAIN trace
            THEN << [sec |-> "gasDetails", line |-> "header"],
                    [sec |-> "gasDetails", line |-> "Used",
                     v |-> trace.gasDetails.gasUsed] >>
                 \o (IF trace.gasDetails.gasPrice.some
                     THEN << [sec |-> "gasDetails", line |-> "Gas Price",
                              v |-> trace.gasDetails.gasPrice.v] >>
                     ELSE <<>>)
                 \o << [sec |-> "gasDetails", line |-> "Total Cost",
                        v |-> trace.gasDetails.totalCost] >>
            ELSE <<>>
        events ==
            IF "events" \in DOMAIN trace /\ trace.events # <<>>
            THEN LET n == Len(trace.events)
                     shown == IF n < 5 THEN n ELSE 5
                 IN  << [sec |-> "events", line |-> "header", count |-> n] >>
                     \o [i \in 1..shown |->
                            [sec |-> "events", line |-> "event",
                             name |-> trace.events[i].name.v]]
                     \o (IF n > 5
                         THEN << [sec |-> "events", line |-> "more",
                                  count |-> n] >>
                         ELSE <<>>)
            ELSE <<>>
        call_trace ==
            IF "callTrace" \in DOMAIN trace
            THEN LET calls == trace.callTrace.calls
                 IN  << [sec |-> "callTrace", line |-> "header"] >>
                     \o [i \in DOMAIN calls |->
                            [sec |-> "callTrace", line |-> "call",
                             indent |-> 3 * calls[i].depth,
                             trace |-> calls[i].trace]]
            ELSE <<>>
    IN  banner \o overview \o tx_info \o gas \o events \o call_trace
        \o << [sec |-> "end", line |-> "blank"] >>

\* format_trace_for_display
format_trace_for_display(trace) ==
    LET banner == << [sec |-> "banner", line |-> "banner"] >>
        overview ==
            IF "overview" \in DOMAIN trace
            THEN << [sec |-> "overview", line |-> "header"],
                    [sec |-> "overview", line |-> "Status",
                     v |-> trace.overview.status] >>
            ELSE <<>>
        tx_info ==
            IF "transactionInfo" \in DOMAIN trace
            THEN << [sec |-> "transactionInfo", line |-> "header"],
                    [sec |-> "transactionInfo", line |-> "Value",
                     v |-> trace.transactionInfo.value] >>
            ELSE <<>>
        gas ==
            IF "gasDetails" \in DOMAIN trace
            THEN << [sec |-> "gasDetails", line |-> "header"],
                    [sec |-> "gasDetails", line |-> "Used",
                     v |-> trace.gasDetails.gasUsed] >>
                 \o (IF trace.gasDetails.gasPrice.some
                     THEN << [sec |-> "gasDetails", line |-> "Gas Price",
                              v |-> trace.gasDetails.gasPrice.v] >>
                     ELSE <<>>)
                 \o << [sec |-> "gasDetails", line |-> "Total Cost",
                        v |-> trace.gasDetails.totalCost] >>
            ELSE <<>>
        events ==
            IF "events" \in DOMAIN trace /\ trace.events # <<>>
            THEN LET n == Len(trace.events)
                     shown == IF n < 5 THEN n ELSE 5
                 IN  << [sec |-> "events", line |-> "header", count |-> n] >>
                     \o [i \in 1..shown |->
                            [sec |-> "events", line |-> "event",
                             name |-> trace.events[i].name.v]]
                     \o (IF n > 5
                         THEN << [sec |-> "events", line |-> "more",
                                  count |-> n - 5] >>
                         ELSE <<>>)
            ELSE <<>>
        call_trace ==
            IF "callTrace" \in DOMAIN trace
            THEN LET calls == trace.callTrace.calls
                 IN  << [sec |-> "callTrace", line |-> "header"] >>
                     \o [i \in DOMAIN calls |->
                            [sec |-> "callTrace", line |-> "call",
                             indent |-> 3 * calls[i].depth,
                             trace |-> calls[i].trace]]
            ELSE <<>>
    IN  banner \o overview \o tx_info \o gas \o events \o call_trace
        \o << [sec |-> "end", line |-> "blank"] >>

(***************************************************************************)
(* Request orchestration (lib.rs, simulator_debug.rs,                      *)
(* transaction_simulator.rs).                                              *)
(***************************************************************************)
VARIABLES
    binaries,       \* the executables present in the binaries directory
    kind,           \* kind[r]: which entry point request r came through
    tx_hash,        \* tx_hash[r]: the hash string given to debug_transaction
    pc,             \* pc[r]: the await point request r is suspended at
    anvil,          \* anvil[r]: the forked backend process of request r
    kills,          \* kills[r]: how many times that process was killed
    tx_receipt,     \* tx_receipt[r]: the fetched receipt
    tx_details,     \* tx_details[r]: the fetched transaction
    output_result,  \* output_result[r]: how the cast command ended
    calls,          \* calls[r]: RPC calls and commands issued, in order
    call_result,    \* call_result[r]: outcome of the non-mutating call
    result,         \* result[r]: what the request gave back to its caller
    endpoint,       \* endpoint[r]: the port of r's AnvilInstance, 0 for none
    target,         \* target[r]: the port r's call in flight is sent to, 0 for none
    mined           \* mined[r]: r's backend has mined the submitted transaction

VARIABLES
    output,         \* lines of the text scanned so far by parse_call_trace
    parse_pc,       \* "loop" while scanning, "done" after the final push
    traces,         \* the nodes pushed so far
    current_trace,  \* text of the node being accumulated
    depth           \* depth of the node being accumulated

VARIABLES
    fn,             \* the formatter function applied last
    arg,            \* its argument
    ret             \* what it returned

reqVars == <<binaries, kind, tx_hash, pc, anvil, kills, tx_receipt, tx_details,
             output_result, calls, call_result, result, endpoint, target,
             mined>>
parseVars == <<output, parse_pc, traces, current_trace, depth>>
fmtVars == <<fn, arg, ret>>
vars == <<reqVars, parseVars, fmtVars>>

NoResult == [tag |-> "none"]
Ok(x) == [tag |-> "Ok", v |-> x]
Err(m) == [tag |-> "Err", msg |-> m]
Panicked(m) == [tag |-> "panic", msg |-> m]
Cancelled == [tag |-> "cancelled"]

\* Texts the cast command may print on its standard output.
CastStdouts == {<<>>, << <<MID, TXT>>, <<VBAR, LAST, TXT>>, <<SP, TXT>> >>}

InitReqs ==
    /\ binaries \in SUBSET {"anvil", "cast"}
    /\ kind = [r \in Reqs |-> "none"]
    /\ tx_hash = [r \in Reqs |-> "none"]
    /\ pc = [r \in Reqs |-> "idle"]
    /\ anvil = [r \in Reqs |-> "none"]
    /\ kills = [r \in Reqs |-> 0]
    /\ tx_receipt = [r \in Reqs |-> None]
    /\ tx_details = [r \in Reqs |-> None]
    /\ output_result = [r \in Reqs |-> "none"]
    /\ calls = [r \in Reqs |-> <<>>]
    /\ call_result = [r \in Reqs |-> NoResult]
    /\ result = [r \in Reqs |-> NoResult]
    /\ endpoint = [r \in Reqs |-> 0]
    /\ target = [r \in Reqs |-> 0]
    /\ mined = [r \in Reqs |-> FALSE]

InitParse ==
    /\ output = <<>>
    /\ parse_pc = "loop"
    /\ traces = parse_init.traces
    /\ current_trace = parse_init.current_trace
    /\ depth = parse_init.depth

InitFmt ==
    /\ fn = "none"
    /\ arg = None
    /\ ret = None

Init == InitReqs /\ InitParse /\ InitFmt

\* The ports a newly spawned backend may come to listen on: a port on which
\* a running backend listens cannot be bound again.
Ports == Reqs
FreePorts == Ports \ {endpoint[q] : q \in {x \in Reqs : anvil[x] = "running"}}

\* Leave with the backend stopped by a call placed on the success path only
Leave_kill_on_success_only(r, res, held) ==
    /\ pc' = [pc EXCEPT ![r] = "done"]
    /\ result' = [result EXCEPT ![r] = res]
    /\ anvil' = [anvil EXCEPT ![r] =
                    IF held
                    THEN (IF res.tag = "Ok" THEN "killed" ELSE "running")
                    ELSE @]
    /\ kills' = [kills EXCEPT ![r] = IF held /\ res.tag = "Ok" THEN @ + 1 ELSE @]
    /\ endpoint' = [endpoint EXCEPT ![r] = 0]
    /\ target' = [target EXCEPT ![r] = 0]

\* Leave with the backend stopped by a call placed before every return,
\* which a dropped future never reaches
Leave_kill_on_return_only(r, res, held) ==
    /\ pc' = [pc EXCEPT ![r] = "done"]
    /\ result' = [result EXCEPT ![r] = res]
    /\ anvil' = [anvil EXCEPT ![r] =
                    IF held
                    THEN (IF res.tag \in {"Ok", "Err"} THEN "killed" ELSE "running")
                    ELSE @]
    /\ kills' = [kills EXCEPT ![r] =
                    IF held /\ res.tag \in {"Ok", "Err"} THEN @ + 1 ELSE @]
    /\ endpoint' = [endpoint EXCEPT ![r] = 0]
    /\ target' = [target EXCEPT ![r] = 0]

\* Leave stopping every running backend instead of the request's own child
Leave_kill_every_backend(r, res, held) ==
    /\ pc' = [pc EXCEPT ![r] = "done"]
    /\ result' = [result EXCEPT ![r] = res]
    /\ anvil' = [q \in Reqs |->
                    IF held /\ (q = r \/ anvil[q] = "running") THEN "killed"
                    ELSE anvil[q]]
    /\ kills' = [q \in Reqs |->
                    IF held /\ (q = r \/ anvil[q] = "running") THEN kills[q] + 1
                    ELSE kills[q]]
    /\ endpoint' = [endpoint EXCEPT ![r] = 0]
    /\ target' = [target EXCEPT ![r] = 0]

\* Request r leaves simulate_transaction or trace_transaction with res (a
\* return, a panic unwinding, or its future being dropped).  `held` says
\* that the AnvilInstance binding is in scope; AnvilInstance's Drop kills
\* the child process.
Leave(r, res, held) ==
    /\ pc' = [pc EXCEPT ![r] = "done"]
    /\ result' = [result EXCEPT ![r] = res]
    /\ anvil' = [anvil EXCEPT ![r] = IF held THEN "killed" ELSE @]
    /\ kills' = [kills EXCEPT ![r] = IF held THEN @ + 1 ELSE @]
    /\ endpoint' = [endpoint EXCEPT ![r] = 0]
    /\ target' = [target EXCEPT ![r] = 0]

\* Request r suspends at the await point p after issuing call c to the
\* endpoint e: the RPC calls go through the provider built on
\* anvil.endpoint(), the trace command is given anvil.endpoint().
Await(r, p, c, e) ==
    /\ pc' = [pc EXCEPT ![r] = p]
    /\ calls' = [calls EXCEPT ![r] = Append(@, c)]
    /\ target' = [target EXCEPT ![r] = e]

\* The tail of trace_transaction from the match on get_cast_trace_quick's
\* result: format_tenderly_style, format_trace_for_display, Ok(trace).
Assemble(r, tx, receipt, cast_trace) ==
    LET trace == format_tenderly_style(tx, receipt, cast_trace)
    IN  IF trace.panic
        THEN Leave(r, Panicked("Integer overflow when casting to u128"), TRUE)
        ELSE Leave(r, Ok(trace.v), TRUE)

\* debug_transaction issuing the receipt and the transaction lookups together
debug_transaction_pipelined(r) ==
    /\ pc[r] = "idle"
    /\ kind' = [kind EXCEPT ![r] = "trace"]
    /\ \E hash_ok \in BOOLEAN, spawn_ok \in BOOLEAN, provider_ok \in BOOLEAN,
          port \in FreePorts :
          /\ spawn_ok => "anvil" \in binaries
          /\ tx_hash' = [tx_hash EXCEPT ![r] =
                            IF hash_ok THEN "wellformed" ELSE "malformed"]
          /\ IF ~hash_ok
             THEN /\ Leave(r, Err("Invalid transaction hash"), FALSE)
                  /\ UNCHANGED calls
             ELSE IF ~spawn_ok
             THEN /\ Leave(r, Panicked("could not spawn anvil"), FALSE)
                  /\ UNCHANGED calls
             ELSE IF ~provider_ok
             THEN /\ Leave(r, Err("provider"), TRUE)
                  /\ UNCHANGED calls
             ELSE /\ anvil' = [anvil EXCEPT ![r] = "running"]
                  /\ endpoint' = [endpoint EXCEPT ![r] = port]
                  /\ pc' = [pc EXCEPT ![r] = "receipt"]
                  /\ calls' = [calls EXCEPT ![r] =
                                  @ \o <<"get_transaction_receipt", "get_transaction">>]
                  /\ target' = [target EXCEPT ![r] = port]
                  /\ UNCHANGED <<kills, result>>
    /\ UNCHANGED <<binaries, tx_receipt, tx_details, output_result, call_result,
                   mined, parseVars, fmtVars>>

\* debug_transaction parsing the hash only after the session was started
debug_transaction_parse_late(r) ==
    /\ pc[r] = "idle"
    /\ kind' = [kind EXCEPT ![r] = "trace"]
    /\ \E hash_ok \in BOOLEAN, spawn_ok \in BOOLEAN, provider_ok \in BOOLEAN,
          port \in FreePorts :
          /\ spawn_ok => "anvil" \in binaries
          /\ tx_hash' = [tx_hash EXCEPT ![r] =
                            IF hash_ok THEN "wellformed" ELSE "malformed"]
          /\ IF ~spawn_ok
             THEN /\ Leave(r, Panicked("could not spawn anvil"), FALSE)
                  /\ UNCHANGED calls
             ELSE IF ~provider_ok
             THEN /\ Leave(r, Err("provider"), TRUE)
                  /\ UNCHANGED calls
             ELSE IF ~hash_ok
             THEN /\ Leave(r, Err("Invalid transaction hash"), TRUE)
                  /\ UNCHANGED calls
             ELSE /\ anvil' = [anvil EXCEPT ![r] = "running"]
                  /\ endpoint' = [endpoint EXCEPT ![r] = port]
                  /\ Await(r, "receipt", "get_transaction_receipt", port)
                  /\ UNCHANGED <<kills, result>>
    /\ UNCHANGED <<binaries, tx_receipt, tx_details, output_result, call_result,
                   mined, parseVars, fmtVars>>

\* lib.rs debug_transaction, and trace_transaction up to its first await.
debug_transaction(r) ==
    /\ pc[r] = "idle"
    /\ kind' = [kind EXCEPT ![r] = "trace"]
    /\ \E hash_ok \in BOOLEAN, spawn_ok \in BOOLEAN, provider_ok \in BOOLEAN,
          port \in FreePorts :
          /\ spawn_ok => "anvil" \in binaries
          /\ tx_hash' = [tx_hash EXCEPT ![r] =
                            IF hash_ok THEN "wellformed" ELSE "malformed"]
          /\ IF ~hash_ok
             THEN /\ Leave(r, Err("Invalid transaction hash"), FALSE)
                  /\ UNCHANGED calls
             ELSE IF ~spawn_ok
             THEN /\ Leave(r, Panicked("could not spawn anvil"), FALSE)
                  /\ UNCHANGED calls
             ELSE IF ~provider_ok
             THEN /\ Leave(r, Err("provider"), TRUE)
                  /\ UNCHANGED calls
             ELSE /\ anvil' = [anvil EXCEPT ![r] = "running"]
                  /\ endpoint' = [endpoint EXCEPT ![r] = port]
                  /\ Await(r, "receipt", "get_transaction_receipt", port)
                  /\ UNCHANGED <<kills, result>>
    /\ UNCHANGED <<binaries, tx_receipt, tx_details, output_result, call_result,
                   mined, parseVars, fmtVars>>

\* provider.get_transaction_receipt(tx_hash).await?.ok_or_else(..)?
fetch_receipt(r) ==
    /\ pc[r] = "receipt"
    /\ \/ /\ Leave(r, Err("rpc: get_transaction_receipt"), TRUE)
          /\ UNCHANGED <<tx_receipt, calls>>
       \/ /\ Leave(r, Err("Transaction not found"), TRUE)
          /\ UNCHANGED <<tx_receipt, calls>>
       \/ \E receipt \in Receipts :
             /\ tx_receipt' = [tx_receipt EXCEPT ![r] = Some(receipt)]
             /\ Await(r, "transaction", "get_transaction", endpoint[r])
             /\ UNCHANGED <<anvil, kills, result, endpoint>>
    /\ UNCHANGED <<binaries, kind, tx_hash, tx_details, output_result, call_result,
                   mined, parseVars, fmtVars>>

\* fetch_transaction going on with a default transaction when the lookup
\* finds none
fetch_transaction_default_on_none(r) ==
    /\ pc[r] = "transaction"
    /\ \/ /\ Leave(r, Err("rpc: get_transaction"), TRUE)
          /\ UNCHANGED <<tx_details, output_result, calls>>
       \/ \E found \in BOOLEAN, tx \in Txs :
             /\ tx_details' = [tx_details EXCEPT ![r] =
                                  IF found THEN Some(tx) ELSE None]
             /\ IF "cast" \notin binaries
                THEN /\ output_result' =
                            [output_result EXCEPT ![r] = "binary_missing"]
                     /\ Assemble(r, tx, tx_receipt[r].v, None)
                     /\ UNCHANGED calls
                ELSE /\ Await(r, "cast", "cast", endpoint[r])
                     /\ UNCHANGED <<anvil, kills, result, output_result, endpoint>>
    /\ UNCHANGED <<binaries, kind, tx_hash, tx_receipt, call_result, mined, parseVars, fmtVars>>

\* provider.get_transaction(tx_hash).await?.ok_or_else(..)?, then
\* get_cast_trace_quick up to its await on the command's output.
fetch_transaction(r) ==
    /\ pc[r] = "transaction"
    /\ \/ /\ Leave(r, Err("rpc: get_transaction"), TRUE)
          /\ UNCHANGED <<tx_details, output_result, calls>>
       \/ /\ Leave(r, Err("Transaction details not found"), TRUE)
          /\ UNCHANGED <<tx_details, output_result, calls>>
       \/ \E tx \in Txs :
             /\ tx_details' = [tx_details EXCEPT ![r] = Some(tx)]
             /\ IF "cast" \notin binaries
                THEN \* Err("Cast binary not found"): cast_trace = None
                     /\ output_result' =
                            [output_result EXCEPT ![r] = "binary_missing"]
                     /\ Assemble(r, tx, tx_receipt[r].v, None)
                     /\ UNCHANGED calls
                ELSE /\ Await(r, "cast", "cast", endpoint[r])
                     /\ UNCHANGED <<anvil, kills, result, output_result, endpoint>>
    /\ UNCHANGED <<binaries, kind, tx_hash, tx_receipt, call_result, mined, parseVars, fmtVars>>

\* timeout(Duration::from_secs(30), cmd.output()).await resolves to Err(_):
\* the 30 seconds elapsed before the command ended.  trace_transaction runs
\* to its end without trace text.
cast_timed_out(r) ==
    /\ pc[r] = "cast"
    /\ output_result' = [output_result EXCEPT ![r] = "timeout"]
    /\ Assemble(r, tx_details[r].v, tx_receipt[r].v, None)
    /\ UNCHANGED <<binaries, kind, tx_hash, tx_receipt, tx_details, calls, call_result,
                   mined, parseVars, fmtVars>>

\* timeout(Duration::from_secs(30), cmd.output()).await resolves, and
\* trace_transaction runs to its end.
cast_finished(r) ==
    \/ cast_timed_out(r)
    \/ /\ pc[r] = "cast"
       /\ \/ \* Ok(Err(e)): the command could not be run
             /\ output_result' = [output_result EXCEPT ![r] = "failed"]
             /\ Assemble(r, tx_details[r].v, tx_receipt[r].v, None)
          \/ \* Ok(Ok(output)): the command exited; its status is not looked at
             \E status \in {"exit_zero", "exit_nonzero"}, stdout \in CastStdouts :
                /\ output_result' = [output_result EXCEPT ![r] = status]
                /\ Assemble(r, tx_details[r].v, tx_receipt[r].v, Some(stdout))
       /\ UNCHANGED <<binaries, kind, tx_hash, tx_receipt, tx_details, calls,
                      call_result, mined, parseVars, fmtVars>>

\* The points at which a request's future is suspended and may be dropped.
AwaitPoints == {"receipt", "transaction", "cast",
                "send", "debug_trace", "call", "estimate"}

\* The caller drops the future of request r while it is suspended: its
\* locals are dropped, the AnvilInstance among them.
cancel(r) ==
    /\ pc[r] \in AwaitPoints
    /\ Leave(r, Cancelled, TRUE)
    /\ UNCHANGED <<binaries, kind, tx_hash, tx_receipt, tx_details, output_result,
                   calls, call_result, mined, parseVars, fmtVars>>

\* simulate_transaction issuing the non-mutating call first and leaving
\* the submission out
simulate_transaction_call_first(r) ==
    /\ pc[r] = "idle"
    /\ kind' = [kind EXCEPT ![r] = "simulate"]
    /\ \E spawn_ok \in BOOLEAN, provider_ok \in BOOLEAN,
          port \in FreePorts :
          /\ spawn_ok => "anvil" \in binaries
          /\ IF ~spawn_ok
             THEN /\ Leave(r, Panicked("could not spawn anvil"), FALSE)
                  /\ UNCHANGED calls
             ELSE IF ~provider_ok
             THEN /\ Leave(r, Err("provider"), TRUE)
                  /\ UNCHANGED calls
             ELSE /\ anvil' = [anvil EXCEPT ![r] = "running"]
                  /\ endpoint' = [endpoint EXCEPT ![r] = port]
                  /\ Await(r, "call", "call", port)
                  /\ UNCHANGED <<kills, result>>
    /\ UNCHANGED <<binaries, tx_hash, tx_receipt, tx_details, output_result, call_result,
                   mined, parseVars, fmtVars>>

\* simulator_debug::simulate_transaction up to its first await.
simulate_transaction(r) ==
    /\ pc[r] = "idle"
    /\ kind' = [kind EXCEPT ![r] = "simulate"]
    /\ \E spawn_ok \in BOOLEAN, provider_ok \in BOOLEAN,
          port \in FreePorts :
          /\ spawn_ok => "anvil" \in binaries
          /\ IF ~spawn_ok
             THEN /\ Leave(r, Panicked("could not spawn anvil"), FALSE)
                  /\ UNCHANGED calls
             ELSE IF ~provider_ok
             THEN /\ Leave(r, Err("provider"), TRUE)
                  /\ UNCHANGED calls
             ELSE /\ anvil' = [anvil EXCEPT ![r] = "running"]
                  /\ endpoint' = [endpoint EXCEPT ![r] = port]
                  /\ Await(r, "send", "send_transaction", port)
                  /\ UNCHANGED <<kills, result>>
    /\ UNCHANGED <<binaries, tx_hash, tx_receipt, tx_details, output_result, call_result,
                   mined, parseVars, fmtVars>>

\* provider.send_transaction(tx.clone(), None).await?
send_transaction(r) ==
    /\ pc[r] = "send"
    /\ \/ /\ Leave(r, Err("rpc: send_transaction"), TRUE)
          /\ UNCHANGED <<calls, mined>>
       \/ \* the backend, started without a block time, mines the
          \* transaction as it accepts it and answers with its hash
          /\ mined' = [mined EXCEPT ![r] = TRUE]
          /\ Await(r, "debug_trace", "debug_trace_transaction", endpoint[r])
          /\ UNCHANGED <<anvil, kills, result, endpoint>>
    /\ UNCHANGED <<binaries, kind, tx_hash, tx_receipt, tx_details, output_result,
                   call_result, parseVars, fmtVars>>

\* provider.debug_trace_transaction(tx_hash, trace_options).await?
debug_trace_transaction(r) ==
    /\ pc[r] = "debug_trace"
    /\ \/ /\ Leave(r, Err("rpc: debug_trace_transaction"), TRUE)
          /\ UNCHANGED calls
       \/ /\ Await(r, "call", "call", endpoint[r])
          /\ UNCHANGED <<anvil, kills, result, endpoint>>
    /\ UNCHANGED <<binaries, kind, tx_hash, tx_receipt, tx_details, output_result,
                   call_result, mined, parseVars, fmtVars>>

\* match provider.call(&typed_tx, None).await { Ok(res) => .., Err(err) => .. }
call(r) ==
    /\ pc[r] = "call"
    /\ \E res \in {Ok("bytes"), Err("rpc: call")} :
          call_result' = [call_result EXCEPT ![r] = res]
    /\ Await(r, "estimate", "estimate_gas", endpoint[r])
    /\ UNCHANGED <<binaries, kind, tx_hash, anvil, kills, tx_receipt, tx_details,
                   output_result, result, endpoint, mined, parseVars, fmtVars>>

\* estimate_gas putting a default estimate in place of a failed one
estimate_gas_default_on_error(r) ==
    /\ pc[r] = "estimate"
    /\ \/ Leave(r, Ok([call_result |-> call_result[r],
                       gas_estimate |-> "default",
                       trace |-> "geth_trace"]), TRUE)
       \/ Leave(r, Ok([call_result |-> call_result[r],
                       gas_estimate |-> "gas",
                       trace |-> "geth_trace"]), TRUE)
    /\ UNCHANGED <<binaries, kind, tx_hash, tx_receipt, tx_details, output_result,
                   calls, call_result, mined, parseVars, fmtVars>>

\* gas_estimate: provider.estimate_gas(&typed_tx, None).await?, Ok(..)
estimate_gas(r) ==
    /\ pc[r] = "estimate"
    /\ \/ Leave(r, Err("rpc: estimate_gas"), TRUE)
       \/ Leave(r, Ok([call_result |-> call_result[r],
                       gas_estimate |-> "gas",
                       trace |-> "geth_trace"]), TRUE)
    /\ UNCHANGED <<binaries, kind, tx_hash, tx_receipt, tx_details, output_result,
                   calls, call_result, mined, parseVars, fmtVars>>

\* TransactionSimulator::locate_binaries
locate_binaries ==
    IF "anvil" \notin binaries THEN Err("Anvil binary not found")
    ELSE IF "cast" \notin binaries THEN Err("Cast binary not found")
    ELSE Ok(<<"anvil", "cast">>)

\* TransactionSimulator::simulate_transaction: the child process handle is
\* dropped at the return without kill_on_drop, which leaves the child alone.
helper_simulate_transaction(r) ==
    /\ pc[r] = "idle"
    /\ kind' = [kind EXCEPT ![r] = "helper"]
    /\ pc' = [pc EXCEPT ![r] = "done"]
    /\ IF locate_binaries.tag = "Err"
       THEN /\ result' = [result EXCEPT ![r] = locate_binaries]
            /\ UNCHANGED anvil
       ELSE \/ /\ result' = [result EXCEPT ![r] = Err("Failed to start anvil")]
               /\ UNCHANGED anvil
            \/ /\ anvil' = [anvil EXCEPT ![r] = "running"]
               /\ result' = [result EXCEPT ![r] =
                                Ok("Transaction trace placeholder")]
    /\ UNCHANGED <<binaries, tx_hash, kills, tx_receipt, tx_details, output_result,
                   calls, call_result, endpoint, target, mined, parseVars, fmtVars>>

Next ==
    \E r \in Reqs :
       \/ debug_transaction(r)
       \/ fetch_receipt(r)
       \/ fetch_transaction(r)
       \/ cast_finished(r)
       \/ simulate_transaction(r)
       \/ send_transaction(r)
       \/ debug_trace_transaction(r)
       \/ call(r)
       \/ estimate_gas(r)
       \/ helper_simulate_transaction(r)
       \/ cancel(r)

Spec == Init /\ [][Next]_vars

\* What the code itself makes happen: the timer of the timeout around the
\* trace command fires when the command has not ended before.  No timer
\* bounds the RPC calls, the caller need not start or cancel a request, and
\* the command need not end.
Fairness == \A r \in Reqs : WF_vars(cast_timed_out(r))

SpecLive == Init /\ [][Next]_vars /\ Fairness

(***************************************************************************)
(* parse_call_trace, one loop iteration per step (SpecParse).              *)
(***************************************************************************)
\* n vertical-continuation glyphs
Bars(n) == [i \in 1..n |-> VBAR]

\* What may follow the leading glyphs of an input line.
Tails == { <<>>, <<SP>>, <<TXT>>, <<SP, TXT, SP>>,
           <<MID, TXT>>, <<LAST, TXT>>, <<SP, MID, SP>>,
           <<TXT, LAST, VBAR>>, <<LAST, VBAR, MID>> }

\* The input lines of the model.
Lines == { Bars(n) \o t : n \in 0..MaxBars, t \in Tails }

InitScan ==
    /\ binaries = {"anvil", "cast"}
    /\ kind = [r \in Reqs |-> "none"]
    /\ tx_hash = [r \in Reqs |-> "none"]
    /\ pc = [r \in Reqs |-> "idle"]
    /\ anvil = [r \in Reqs |-> "none"]
    /\ kills = [r \in Reqs |-> 0]
    /\ tx_receipt = [r \in Reqs |-> None]
    /\ tx_details = [r \in Reqs |-> None]
    /\ output_result = [r \in Reqs |-> "none"]
    /\ calls = [r \in Reqs |-> <<>>]
    /\ call_result = [r \in Reqs |-> NoResult]
    /\ result = [r \in Reqs |-> NoResult]
    /\ endpoint = [r \in Reqs |-> 0]
    /\ target = [r \in Reqs |-> 0]
    /\ mined = [r \in Reqs |-> FALSE]
    /\ InitParse
    /\ InitFmt

\* The loop state held in the variables.
loop_state == [traces |-> traces, current_trace |-> current_trace, depth |-> depth]

\* The loop of parse_call_trace takes the next line of its input.
scan_line ==
    /\ parse_pc = "loop"
    /\ Len(output) < MaxLines
    /\ \E line \in Lines :
          LET st == parse_line(loop_state, line)
          IN  /\ output' = Append(output, line)
              /\ traces' = st.traces
              /\ current_trace' = st.current_trace
              /\ depth' = st.depth
    /\ UNCHANGED <<parse_pc, reqVars, fmtVars>>

\* The input is exhausted: the last open node is pushed and the calls are
\* returned.
scan_end ==
    /\ parse_pc = "loop"
    /\ parse_pc' = "done"
    /\ traces' = parse_end(loop_state)
    /\ UNCHANGED <<output, current_trace, depth, reqVars, fmtVars>>

NextParse == scan_line \/ scan_end

SpecParse == InitScan /\ [][NextParse]_vars

(***************************************************************************)
(* The formatter functions applied to inputs (SpecReport).                 *)
(***************************************************************************)
\* every sequence over S of length at most n
RECURSIVE SeqsUpTo(_, _)
SeqsUpTo(S, n) ==
    IF n = 0 THEN {<<>>}
    ELSE LET shorter == SeqsUpTo(S, n - 1)
         IN  shorter \cup {Append(q, x) : q \in shorter, x \in S}

\* Amounts handed to format_ether.
EtherInputs == Amounts \cup {U256_MAX}

\* Gas used and effective gas price of the receipts handed to
\* calculate_gas_cost.
CostOperands == {amount(0, 0), amount(21, 3), amount(1, 9), amount(36, 19),
                 amount(1, 20), amount(34, 60)}
CostOptions == {None} \cup {Some(a) : a \in CostOperands}
CostReceipts == [status : {Some(1)},
                 gas_used : CostOptions,
                 effective_gas_price : CostOptions,
                 logs : {<<>>}]

\* Topic lists handed to decode_event_name.
TopicLists == SeqsUpTo(Topics, MaxTopics)

\* Inputs of format_tenderly_style.
ReportTxs == [value : {amount(0, 0), amount(1, 18), amount(36, 37)},
              gas_price : {None, Some(amount(1, 9))}]
ReportReceipts == [status : {None, Some(0), Some(1), Some(2)},
                   gas_used : {None, Some(amount(21, 3))},
                   effective_gas_price : {None, Some(amount(1, 9))},
                   logs : {<<>>, <<TransferLog>>,
                           <<[topics |-> <<>>], [topics |-> <<OTHER_TOPIC>>]>>}]
CastOutputs == {None} \cup {Some(t) : t \in CastStdouts}

InitReport == InitScan

apply_format_ether ==
    /\ \E wei \in EtherInputs :
          /\ fn' = "format_ether"
          /\ arg' = wei
          /\ ret' = format_ether(wei)
    /\ UNCHANGED <<reqVars, parseVars>>

apply_calculate_gas_cost ==
    /\ \E receipt \in CostReceipts :
          /\ fn' = "calculate_gas_cost"
          /\ arg' = receipt
          /\ ret' = calculate_gas_cost(receipt)
    /\ UNCHANGED <<reqVars, parseVars>>

apply_decode_event_name ==
    /\ \E topics \in TopicLists :
          /\ fn' = "decode_event_name"
          /\ arg' = topics
          /\ ret' = decode_event_name(topics)
    /\ UNCHANGED <<reqVars, parseVars>>

apply_format_tenderly_style ==
    /\ \E tx \in ReportTxs, receipt \in ReportReceipts, cast_output \in CastOutputs :
          /\ fn' = "format_tenderly_style"
          /\ arg' = [tx |-> tx, receipt |-> receipt, cast_output |-> cast_output]
          /\ ret' = format_tenderly_style(tx, receipt, cast_output)
    /\ UNCHANGED <<reqVars, parseVars>>

\* The i-th log of a receipt with many events: the topic lists go round
\* the two known signatures, two unknown topics and the empty list.
EventLog(i) ==
    [topics |-> CASE i % 5 = 1 -> <<TRANSFER_TOPIC>>
                  [] i % 5 = 2 -> <<APPROVAL_TOPIC>>
                  [] i % 5 = 3 -> <<OTHER_TOPIC>>
                  [] i % 5 = 4 -> <<NEAR_TRANSFER_TOPIC>>
                  [] OTHER -> <<>>]

\* Reports handed to format_trace_for_display: those format_tenderly_style
\* makes for receipts with 0 to MaxEvents logs, with and without trace text.
DisplayTraces ==
    LET made ==
          {format_tenderly_style(
               [value |-> amount(1, 18), gas_price |-> gp],
               [status |-> Some(1), gas_used |-> Some(amount(21, 3)),
                effective_gas_price |-> Some(amount(1, 9)),
                logs |-> [i \in 1..n |-> EventLog(i)]],
               co) : gp \in {None, Some(amount(1, 9))}, n \in 0..MaxEvents,
                     co \in CastOutputs}
    IN  {t.v : t \in {x \in made : ~x.panic}}

apply_format_trace_for_display ==
    /\ \E trace \in DisplayTraces :
          /\ fn' = "format_trace_for_display"
          /\ arg' = trace
          /\ ret' = format_trace_for_display(trace)
    /\ UNCHANGED <<reqVars, parseVars>>

NextReport ==
    \/ apply_format_trace_for_display
    \/ apply_format_ether
    \/ apply_calculate_gas_cost
    \/ apply_decode_event_name
    \/ apply_format_tenderly_style

SpecReport == InitReport /\ [][NextReport]_vars

(***************************************************************************)
(* Properties of the request orchestration (Spec).                         *)
(***************************************************************************)
Range(f) == {f[i] : i \in DOMAIN f}

\* The sections every report carries.
BaseSections == {"overview", "transactionInfo", "gasDetails", "events"}

\* Request r came through simulator_debug and its fork session was started.
SessionStarted(r) == kind[r] \in {"trace", "simulate"} /\ anvil[r] # "none"

\* C1: a simulator_debug request that started a fork session kills the
\* backend process exactly once, whatever sub-step fails or succeeds, and has
\* done so when it gives back its result, its error or unwinds from a panic;
\* before that the process runs and has not been killed.
C1_TeardownExactlyOnce ==
    \A r \in Reqs :
        SessionStarted(r) =>
            /\ kills[r] <= 1
            /\ result[r].tag \in {"Ok", "Err", "panic"} =>
                   anvil[r] = "killed" /\ kills[r] = 1
            /\ pc[r] # "done" => anvil[r] = "running" /\ kills[r] = 0

\* Witness of C1: one trace request returned its report and one simulate
\* request returned an RPC error, each after its session was started.
C1_Witness ==
    \E r, q \in Reqs :
        /\ kind[r] = "trace" /\ result[r].tag = "Ok" /\ kills[r] = 1
        /\ kind[q] = "simulate" /\ result[q] = Err("rpc: debug_trace_transaction")
        /\ kills[q] = 1

\* C2: when the trace command runs into its 30 second timeout, the request
\* still returns a report with overview, transactionInfo, gasDetails and
\* events and without callTrace.
C2_TimeoutYieldsReport ==
    \A r \in Reqs :
        output_result[r] = "timeout" =>
            /\ result[r].tag = "Ok"
            /\ BaseSections \subseteq DOMAIN result[r].v
            /\ "callTrace" \notin DOMAIN result[r].v

\* C3: when the trace command exits with a non-zero status, the request
\* returns a report that has no callTrace key.
C3_NonZeroExitNoCallTrace ==
    \A r \in Reqs :
        output_result[r] = "exit_nonzero" =>
            /\ result[r].tag = "Ok"
            /\ "callTrace" \notin DOMAIN result[r].v

\* C4: a trace request whose receipt or transaction lookup was issued and
\* gave no receipt or no transaction ends with an error, without ever running
\* the trace command, without a report, and with its backend killed; the
\* trace command is only ever run with both in hand.
C4_FetchFailureIsFatal ==
    \A r \in Reqs :
        /\ "cast" \in Range(calls[r]) => tx_receipt[r].some /\ tx_details[r].some
        /\ ( /\ kind[r] = "trace"
             /\ pc[r] = "done"
             /\ "get_transaction_receipt" \in Range(calls[r])
             /\ result[r].tag # "cancelled"
             /\ ~(tx_receipt[r].some /\ tx_details[r].some) )
           => /\ result[r].tag = "Err"
              /\ "cast" \notin Range(calls[r])
              /\ anvil[r] = "killed" /\ kills[r] = 1

\* Witness of C4: the receipt was fetched, the transaction was not found.
C4_Witness ==
    \E r \in Reqs :
        /\ tx_receipt[r].some /\ ~tx_details[r].some
        /\ result[r] = Err("Transaction details not found")
        /\ calls[r] = <<"get_transaction_receipt", "get_transaction">>
        /\ anvil[r] = "killed"

\* C5: a malformed transaction hash is rejected with an error before any
\* session is started: no backend process, no RPC call, no command.
C5_MalformedHashRejectedEarly ==
    \A r \in Reqs :
        tx_hash[r] = "malformed" =>
            /\ result[r].tag = "Err"
            /\ anvil[r] = "none" /\ kills[r] = 0
            /\ calls[r] = <<>>

\* Witness of C5: a request rejected for its hash while the backend binary
\* is installed.
C5_Witness ==
    \E r \in Reqs :
        /\ tx_hash[r] = "malformed" /\ pc[r] = "done"
        /\ result[r] = Err("Invalid transaction hash")
        /\ "anvil" \in binaries

\* C6: a trace request cancelled while suspended at the receipt fetch, the
\* transaction fetch or the trace capture has its backend process killed.
C6_CancelTearsDown ==
    \A r \in Reqs :
        kind[r] = "trace" /\ result[r].tag = "cancelled" =>
            anvil[r] = "killed" /\ kills[r] = 1

\* Witness of C6: a request cancelled while the trace command was running.
C6_Witness ==
    \E r \in Reqs :
        /\ kind[r] = "trace" /\ result[r].tag = "cancelled"
        /\ calls[r] = <<"get_transaction_receipt", "get_transaction", "cast">>
        /\ anvil[r] = "killed"

\* C7: after TransactionSimulator::simulate_transaction has returned, no
\* backend process spawned by that call is still running.
C7_HelperStopsBackend ==
    \A r \in Reqs :
        kind[r] = "helper" /\ pc[r] = "done" => anvil[r] # "running"

\* C8: a request that ended without a session because the backend binary is
\* absent or could not be spawned has returned an error value to its caller.
C8_SetupFailureIsError ==
    \A r \in Reqs :
        pc[r] = "done" /\ tx_hash[r] # "malformed" /\ anvil[r] = "none" =>
            result[r].tag = "Err"

(***************************************************************************)
(* Properties of parse_call_trace (SpecParse).                             *)
(***************************************************************************)
\* The line carries a middle-child or last-child branch marker.
HasMarker(line) == \E i \in DOMAIN line : line[i] \in {MID, LAST}

\* Positions of the call-initiating lines of the input.
CallIdx(ls) == {i \in DOMAIN ls : HasMarker(ls[i])}

\* Position of the k-th call-initiating line.
KthCall(ls, k) ==
    CHOOSE i \in CallIdx(ls) : Cardinality({j \in CallIdx(ls) : j < i}) = k - 1

\* Position of the last line before the (k+1)-th call-initiating line.
SegmentEnd(ls, k) ==
    IF k = Cardinality(CallIdx(ls)) THEN Len(ls) ELSE KthCall(ls, k + 1) - 1

NonBlank(line) == \E i \in DOMAIN line : line[i] # SP

RECURSIVE JoinTrimmed(_)
JoinTrimmed(ls) ==
    IF ls = <<>> THEN <<>>
    ELSE IF Len(ls) = 1 THEN trim(ls[1])
    ELSE trim(ls[1]) \o <<NL>> \o JoinTrimmed(Tail(ls))

\* The text the k-th node is to carry: its call-initiating line and the
\* non-blank lines up to the next call-initiating line, trimmed and joined.
ExpectedText(ls, k) ==
    JoinTrimmed(SelectSeq(SubSeq(ls, KthCall(ls, k), SegmentEnd(ls, k)), NonBlank))

\* C9: as long as the input has had no call-initiating line, no node is
\* open or emitted, and the calls returned for such an input are empty.
C9_NoCallLineNoNodes ==
    CallIdx(output) = {} => traces = <<>> /\ current_trace = <<>>

\* Witness of C9: a finished parse of an input with a non-blank continuation
\* line, a blank line and no call-initiating line.
C9_Witness ==
    /\ parse_pc = "done"
    /\ CallIdx(output) = {}
    /\ \E i, j \in DOMAIN output : NonBlank(output[i]) /\ ~NonBlank(output[j])
    /\ traces = <<>>

\* C10: each returned node's text is its trimmed call-initiating line
\* followed by the trimmed non-blank lines between it and the next
\* call-initiating line, in input order, joined by line breaks.
C10_NodeText ==
    parse_pc = "done" =>
        \A k \in DOMAIN traces :
            /\ k <= Cardinality(CallIdx(output))
            /\ traces[k].trace = ExpectedText(output, k)

\* Witness of C10: a depth-0 call, a depth-1 call and one continuation line
\* give two nodes, the first with its own line only, the second with two
\* lines.
C10_Witness ==
    /\ parse_pc = "done"
    /\ Len(output) = 3
    /\ Len(traces) = 2
    /\ traces[1].depth = 0 /\ ~contains(traces[1].trace, NL)
    /\ traces[2].depth = 1 /\ matches_count(traces[2].trace, NL) = 1


\* Position of the leftmost branch marker of a call-initiating line.
FirstMarker(line) ==
    CHOOSE i \in DOMAIN line :
        line[i] \in {MID, LAST} /\ \A j \in 1..(i - 1) : line[j] \notin {MID, LAST}

\* Vertical-continuation glyphs before the leftmost branch marker.
BarsBeforeFirstMarker(line) ==
    Cardinality({j \in 1..(FirstMarker(line) - 1) : line[j] = VBAR})

\* C11: the depth of each returned node is the number of
\* vertical-continuation glyphs before the leftmost branch marker (middle-child
\* or last-child, whichever comes first) of its call-initiating line.
C11_DepthIsBarsBeforeFirstMarker ==
    parse_pc = "done" =>
        \A k \in DOMAIN traces :
            /\ k <= Cardinality(CallIdx(output))
            /\ traces[k].depth = BarsBeforeFirstMarker(output[KthCall(output, k)])

\* The texts of the nodes, one after another, separated by line breaks.
RECURSIVE EmittedText(_)
EmittedText(ns) ==
    IF ns = <<>> THEN <<>>
    ELSE IF Len(ns) = 1 THEN ns[1].trace
    ELSE ns[1].trace \o <<NL>> \o EmittedText(Tail(ns))

\* The nodes obtained by parsing the emitted text of the returned nodes.
Reparsed == parse_call_trace(lines(EmittedText(traces))).calls

\* C12: parsing the line-break-separated texts of the returned nodes again
\* gives as many nodes as before, with the same depths in the same order.
C12_ReparseKeepsDepths ==
    parse_pc = "done" =>
        /\ Len(Reparsed) = Len(traces)
        /\ \A k \in DOMAIN traces : Reparsed[k].depth = traces[k].depth

\* Witness of C12: an indented call-initiating line and a depth-1 node with
\* a continuation line; the emitted text parses to the same two nodes.
C12_Witness ==
    /\ parse_pc = "done"
    /\ Len(traces) = 2
    /\ \E i \in DOMAIN output : HasMarker(output[i]) /\ output[i][1] = SP
    /\ \E n \in DOMAIN traces : traces[n].depth = 1 /\ contains(traces[n].trace, NL)
    /\ Len(Reparsed) = 2
    /\ Len(lines(EmittedText(traces))) = 3


(***************************************************************************)
(* Properties of the formatter functions (SpecReport).                     *)
(***************************************************************************)
\* C13: the overview status of a report is the success string exactly when
\* the receipt status is 1; any other status, an absent one included, gives
\* the failed string.
C13_StatusIsSuccessIffOne ==
    fn = "format_tenderly_style" /\ ~ret.panic =>
        /\ ret.v.overview.status = "Success" <=> arg.receipt.status = Some(1)
        /\ arg.receipt.status # Some(1) => ret.v.overview.status = "Failed"

\* Witness of C13: a report for a receipt with a status other than 0 and 1
\* shows the failed string.
C13_Witness ==
    /\ fn = "format_tenderly_style"
    /\ ~ret.panic
    /\ arg.receipt.status = Some(2)
    /\ ret.v.overview.status = "Failed"

\* C14 as stated: every amount from 0 up to, not including, 10^12 wei is
\* shown as its integer with the wei suffix, never as "0 ETH".
C14_BelowThresholdIsWei ==
    fn = "format_ether" /\ ~is_max(arg) /\ below_pow10(arg, 12) =>
        /\ ~ret.panic
        /\ ret.v = [form |-> "wei", digits |-> arg]

\* C14 amended: every amount from 1 up to, not including, 10^12 wei is shown
\* as its integer with the wei suffix; the amount 0 is shown as "0 ETH".
C14_BelowThresholdIsWeiExceptZero ==
    fn = "format_ether" /\ ~is_max(arg) /\ below_pow10(arg, 12) =>
        /\ ~ret.panic
        /\ arg.m # 0 => ret.v = [form |-> "wei", digits |-> arg]
        /\ arg.m = 0 => ret.v = [form |-> "0 ETH"]

\* Witness of C14: 999 * 10^9 wei, just below the threshold, is shown in wei.
C14_Witness ==
    /\ fn = "format_ether"
    /\ arg = amount(999, 9)
    /\ ~ret.panic
    /\ ret.v.form = "wei"

\* C15: every amount of at least 10^18 wei, those of 2^128 and above
\* included, is shown as an ether string with 6 decimal digits, without a
\* panic and in no other form.
C15_AtLeastOneEtherIsSixDecimals ==
    fn = "format_ether" /\ (is_max(arg) \/ ~below_pow10(arg, 18)) =>
        /\ ~ret.panic
        /\ ret.v.form = "ETH"
        /\ ret.v.decimals = 6

\* The product of two amounts, without a limit on its size.
ExactProduct(a, b) == normalize(a.m * b.m, a.e + b.e)

\* C16: the total cost is "Unknown" exactly when gas used or the effective
\* gas price is absent, and otherwise the ether formatting of the exact
\* product of the two; 21000 gas at 1000000000 wei gives "0.000021 ETH".
C16_TotalCostIsExactProduct ==
    fn = "calculate_gas_cost" =>
        LET both == arg.gas_used.some /\ arg.effective_gas_price.some
        IN  /\ ~ret.panic
            /\ ret.v = [form |-> "Unknown"] <=> ~both
            /\ both => ret.v = ether_string(ExactProduct(arg.gas_used.v,
                                                         arg.effective_gas_price.v))
            /\ (/\ arg.gas_used = Some(amount(21, 3))
                /\ arg.effective_gas_price = Some(amount(1, 9)))
               => ret.v = [form |-> "ETH", decimals |-> 6, micros |-> Some(21)]

\* C17: the event-name lookup never fails; a first topic equal to the
\* transfer signature gives Transfer(address,address,uint256), and a first
\* topic that is neither known signature gives a placeholder holding the
\* first 10 characters of the topic's text.
C17_EventNameLookupIsTotal ==
    fn = "decode_event_name" =>
        /\ ~ret.panic
        /\ (arg # <<>> /\ arg[1] = TRANSFER_TOPIC)
              => ret.v = <<"Transfer(address,address,uint256)">>
        /\ (arg # <<>> /\ arg[1] \notin {TRANSFER_TOPIC, APPROVAL_TOPIC})
              => /\ Len(ret.v) = 12
                 /\ ret.v[1] = "Event("
                 /\ SubSeq(ret.v, 2, 11) = SubSeq(debug_h256(arg[1]), 1, 10)
                 /\ ret.v[12] = "...)"

\* Witness of C17: the lookup gave a placeholder for a topic that shares its
\* first 8 digits with the transfer signature.
C17_Witness ==
    /\ fn = "decode_event_name"
    /\ arg # <<>>
    /\ arg[1] = NEAR_TRANSFER_TOPIC
    /\ ~ret.panic
    /\ ret.v[1] = "Event("

\* C18: the report has a callTrace section exactly when trace text was
\* supplied, and its overview, transactionInfo, gasDetails and events
\* sections are those of the report made without trace text.
C18_CallTraceLeavesOtherSections ==
    fn = "format_tenderly_style" =>
        LET without == format_tenderly_style(arg.tx, arg.receipt, None)
        IN  /\ ret.panic = without.panic
            /\ ~ret.panic =>
                  /\ "callTrace" \in DOMAIN ret.v <=> arg.cast_output.some
                  /\ BaseSections \subseteq DOMAIN ret.v
                  /\ \A sec \in BaseSections : ret.v[sec] = without.v[sec]

\* Witness of C18: a report made with trace text for a receipt with events;
\* it has the callTrace section and the events of the receipt.
C18_Witness ==
    /\ fn = "format_tenderly_style"
    /\ ~ret.panic
    /\ arg.cast_output.some
    /\ arg.cast_output.v # <<>>
    /\ Len(arg.receipt.logs) = 2
    /\ "callTrace" \in DOMAIN ret.v
    /\ Len(ret.v.events) = 2


(***************************************************************************)
(* Order of the steps of a trace request (Spec).                           *)
(***************************************************************************)
\* The RPC calls and the command of trace_transaction, in program order.
TraceSteps == <<"get_transaction_receipt", "get_transaction", "cast">>

IsPrefix(p, q) == Len(p) <= Len(q) /\ SubSeq(q, 1, Len(p)) = p

\* Request r has gone through the assembly of its report.
Assembled(r) ==
    \/ result[r].tag = "Ok"
    \/ result[r] = Panicked("Integer overflow when casting to u128")

\* C19: a trace request issues its steps in the order session start, receipt
\* fetch, transaction fetch, trace capture, assembly, one at a time: every
\* step is issued only when the one before it has ended successfully, the
\* trace capture only with both the receipt and the transaction fetched, and
\* the assembly only when the trace capture has ended or was given up.
C19_StepsStrictlySequential ==
    \A r \in Reqs :
        kind[r] = "trace" =>
            /\ IsPrefix(calls[r], TraceSteps)
            /\ calls[r] # <<>> => anvil[r] # "none"
            /\ pc[r] = "receipt" => Len(calls[r]) = 1 /\ ~tx_receipt[r].some
            /\ Len(calls[r]) >= 2 => tx_receipt[r].some
            /\ pc[r] = "transaction" => Len(calls[r]) = 2 /\ ~tx_details[r].some
            /\ Len(calls[r]) = 3 => tx_details[r].some
            /\ pc[r] = "cast" => Len(calls[r]) = 3 /\ output_result[r] = "none"
            /\ output_result[r] # "none" => tx_receipt[r].some /\ tx_details[r].some
            /\ Assembled(r) => output_result[r] # "none" /\ pc[r] = "done"
            /\ pc[r] # "done" => result[r] = NoResult

\* Witness of C19: a request went through all its steps and returned a
\* report with the call trace.
C19_Witness ==
    \E r \in Reqs :
        /\ kind[r] = "trace"
        /\ calls[r] = TraceSteps
        /\ output_result[r] = "exit_zero"
        /\ result[r].tag = "Ok"
        /\ "callTrace" \in DOMAIN result[r].v

\* C20: when the trace command's binary is missing or the command cannot be
\* run, the request does not end in an error: it goes on to the assembly and
\* returns a report with all sections but callTrace.
C20_CaptureFailureAbsorbed ==
    \A r \in Reqs :
        output_result[r] \in {"binary_missing", "failed"} =>
            /\ result[r].tag # "Err"
            /\ result[r].tag = "Ok"
            /\ DOMAIN result[r].v = BaseSections


(***************************************************************************)
(* Termination of a trace request (SpecLive).                              *)
(***************************************************************************)
\* Request r is a trace request that was started and has not ended.
TraceRunning(r) == kind[r] = "trace" /\ pc[r] # "done"

\* C21: every trace request that was started ends, with its report or with
\* an error: the wait for the trace command ends with the timeout at the
\* latest, and no other step waits for ever.
C21_TraceRequestTerminates ==
    \A r \in Reqs : TraceRunning(r) ~> pc[r] = "done"

\* The part of C21 about the trace command: a request waiting for the
\* command ends, whether or not the command does.
CaptureStepTerminates ==
    \A r \in Reqs : pc[r] = "cast" ~> pc[r] = "done"


(***************************************************************************)
(* Concurrent requests (Spec).                                             *)
(***************************************************************************)
\* Trace request r, while it waits for a call or the command, has a running
\* backend of its own: the call is sent to the port of that backend, on
\* which no other running backend listens.
OwnSession(r) ==
    (kind[r] = "trace" /\ pc[r] \in AwaitPoints) =>
        /\ anvil[r] = "running"
        /\ endpoint[r] \in Ports
        /\ target[r] = endpoint[r]
        /\ \A q \in Reqs \ {r} : anvil[q] = "running" => endpoint[q] # target[r]

\* The backend of request q has stopped only if q itself came to its end.
OwnTeardown(q) ==
    anvil[q] = "killed" => pc[q] = "done" /\ kills[q] = 1

\* C22: in every interleaving of the requests, each trace request sends its
\* RPC calls and its trace command to the endpoint of the session it started
\* itself, which is no other running session's endpoint, and a backend is
\* stopped by the teardown of the request that started it and by no other:
\* while a request waits, its backend runs.
C22_SessionsIsolated ==
    \A r \in Reqs : OwnSession(r) /\ OwnTeardown(r)

\* Witness of C22: of two trace requests one has returned its report and
\* stopped its backend while the other still waits for the trace command on
\* a running backend.
C22_Witness ==
    \E r, q \in Reqs :
        /\ r # q
        /\ kind[r] = "trace" /\ kind[q] = "trace"
        /\ pc[r] = "cast" /\ anvil[r] = "running" /\ kills[r] = 0
        /\ target[r] = endpoint[r]
        /\ result[q].tag = "Ok" /\ anvil[q] = "killed"

(***************************************************************************)
(* simulate_transaction (Spec).                                            *)
(***************************************************************************)
\* The RPC calls of simulate_transaction, in program order.
SimulateSteps == <<"send_transaction", "debug_trace_transaction", "call",
                   "estimate_gas">>

\* C23: simulate_transaction hides no failed RPC: a failed submission,
\* debug trace or gas estimate is the error the request returns, without a
\* DebugInfo; a failed non-mutating call is the failure outcome of the
\* DebugInfo's call_result; a DebugInfo comes only from four issued calls,
\* and carries the estimate and the trace the backend answered with.
C23_NoRpcFailureHidden ==
    \A r \in Reqs :
        kind[r] = "simulate" =>
            /\ result[r].tag = "Ok" =>
                  /\ calls[r] = SimulateSteps
                  /\ call_result[r] \in {Ok("bytes"), Err("rpc: call")}
                  /\ result[r].v = [call_result |-> call_result[r],
                                    gas_estimate |-> "gas",
                                    trace |-> "geth_trace"]
            /\ result[r].tag = "Err" =>
                  \/ result[r] = Err("provider") /\ calls[r] = <<>>
                  \/ \E n \in {1, 2, 4} :
                        /\ calls[r] = SubSeq(SimulateSteps, 1, n)
                        /\ result[r].msg = <<"rpc: send_transaction",
                                             "rpc: debug_trace_transaction",
                                             "rpc: call",
                                             "rpc: estimate_gas">>[n]
            /\ call_result[r] = Err("rpc: call") =>
                  result[r].tag \in {"none", "Ok", "Err", "cancelled"}
            /\ (call_result[r] = Err("rpc: call") /\ result[r].tag = "Ok") =>
                  result[r].v.call_result = Err("rpc: call")

\* Witness of C23: a request returned a DebugInfo whose call outcome is the
\* failure of the non-mutating call.
C23_Witness ==
    \E r \in Reqs :
        /\ kind[r] = "simulate"
        /\ result[r].tag = "Ok"
        /\ result[r].v.call_result = Err("rpc: call")
        /\ calls[r] = SimulateSteps

\* C27: simulate_transaction issues submit, debug trace, call and gas
\* estimate in this order, each after the one before it has returned; the
\* debug trace is asked only after a successful submission, and the call and
\* the gas estimate run on a backend that has mined the submitted
\* transaction.
C27_SimulateStepsInOrder ==
    \A r \in Reqs :
        kind[r] = "simulate" =>
            /\ IsPrefix(calls[r], SimulateSteps)
            /\ pc[r] = "send" => Len(calls[r]) = 1 /\ ~mined[r]
            /\ pc[r] = "debug_trace" => Len(calls[r]) = 2 /\ mined[r]
            /\ pc[r] = "call" =>
                  Len(calls[r]) = 3 /\ mined[r] /\ call_result[r] = NoResult
            /\ pc[r] = "estimate" =>
                  Len(calls[r]) = 4 /\ mined[r] /\ call_result[r] # NoResult
            /\ Len(calls[r]) >= 2 => mined[r]
            /\ pc[r] \in AwaitPoints => target[r] = endpoint[r]

\* Witness of C27: a request waits for the gas estimate after its three
\* other calls have returned.
C27_Witness ==
    \E r \in Reqs :
        /\ kind[r] = "simulate"
        /\ pc[r] = "estimate"
        /\ calls[r] = SimulateSteps
        /\ mined[r]


(***************************************************************************)
(* Shape of the node sequence (SpecParse).                                 *)
(***************************************************************************)
\* C24: every returned node of depth d > 0 comes after a node of depth
\* d - 1; so the first node has depth 0 and the depth grows by at most 1
\* from a node to the next.
C24_EveryNodeHasParent ==
    parse_pc = "done" =>
        \A k \in DOMAIN traces :
            traces[k].depth > 0 =>
                \E j \in 1..(k - 1) : traces[j].depth = traces[k].depth - 1

\* Number of nodes pushed and open after the lines scanned so far.
NodesSoFar == Len(traces) + (IF parse_pc = "loop" /\ current_trace # <<>> THEN 1 ELSE 0)

\* C25: one node per call-initiating line, in input order: after every
\* scanned prefix of the input the nodes pushed plus the open one are as
\* many as the call-initiating lines seen, the k-th of them starting with
\* the k-th such line, and every pushed node's text is non-empty and starts
\* with a line that has a branch marker.
C25_OneNodePerCallLine ==
    /\ NodesSoFar = Cardinality(CallIdx(output))
    /\ \A k \in DOMAIN traces :
          /\ traces[k].trace # <<>>
          /\ HasMarker(lines(traces[k].trace)[1])
          /\ lines(traces[k].trace)[1] = trim(output[KthCall(output, k)])
    /\ (parse_pc = "loop" /\ current_trace # <<>>) =>
          lines(current_trace)[1] = trim(output[KthCall(output, NodesSoFar)])

\* Witness of C25: in the middle of a text, one node is pushed and one is
\* open after two call-initiating lines and a line without a marker.
C25_Witness ==
    /\ parse_pc = "loop"
    /\ Len(output) = 3
    /\ Cardinality(CallIdx(output)) = 2
    /\ Len(traces) = 1
    /\ current_trace # <<>>


(***************************************************************************)
(* Console rendering (SpecReport).                                         *)
(***************************************************************************)
\* Place of a section in the rendered text.
SectionRank(sec) ==
    CASE sec = "banner" -> 0
      [] sec = "overview" -> 1
      [] sec = "transactionInfo" -> 2
      [] sec = "gasDetails" -> 3
      [] sec = "events" -> 4
      [] sec = "callTrace" -> 5
      [] sec = "end" -> 6

IsEventLine(l) == l.line = "event"
IsMoreLine(l) == l.line = "more"
IsCallLine(l) == l.line = "call"
IsHeaderLine(l) == l.line = "header"

\* The smaller of two numbers.
Min(a, b) == IF a < b THEN a ELSE b

\* C26: the rendered text has its sections in the order overview,
\* transaction info, gas details, events, call trace; of n events it lists
\* the first min(n, 5) in report order, and says that n - 5 more exist
\* exactly when n > 5; the call-trace nodes are rendered in their order, each
\* indented by 3 spaces per unit of depth.
C26_DisplayOrderAndEventCap ==
    fn = "format_trace_for_display" =>
        LET n == Len(arg.events)
            eventLines == SelectSeq(ret, IsEventLine)
            moreLines == SelectSeq(ret, IsMoreLine)
            callLines == SelectSeq(ret, IsCallLine)
            headers == SelectSeq(ret, IsHeaderLine)
            nodes == IF "callTrace" \in DOMAIN arg
                     THEN arg.callTrace.calls ELSE <<>>
        IN  /\ \A i, j \in DOMAIN ret :
                  i < j => SectionRank(ret[i].sec) <= SectionRank(ret[j].sec)
            /\ \A i, j \in DOMAIN headers :
                  i < j => SectionRank(headers[i].sec) < SectionRank(headers[j].sec)
            /\ {"overview", "transactionInfo", "gasDetails"}
                  \subseteq {headers[i].sec : i \in DOMAIN headers}
            /\ Len(eventLines) = Min(n, 5)
            /\ \A i \in DOMAIN eventLines :
                  /\ eventLines[i].sec = "events"
                  /\ eventLines[i].name = arg.events[i].name.v
            /\ Len(moreLines) = (IF n > 5 THEN 1 ELSE 0)
            /\ \A i \in DOMAIN moreLines :
                  moreLines[i].sec = "events" /\ moreLines[i].count = n - 5
            /\ Len(callLines) = Len(nodes)
            /\ \A i \in DOMAIN callLines :
                  /\ callLines[i].sec = "callTrace"
                  /\ callLines[i].indent = 3 * nodes[i].depth
                  /\ callLines[i].trace = nodes[i].trace

\* Witness of C26: a report with more than 5 events and a call trace with a
\* node of depth 1 was rendered.
C26_Witness ==
    /\ fn = "format_trace_for_display"
    /\ Len(arg.events) > 5
    /\ "callTrace" \in DOMAIN arg
    /\ \E i \in DOMAIN arg.callTrace.calls : arg.callTrace.calls[i].depth = 1
    /\ \E i \in DOMAIN ret : ret[i].line = "more"
    /\ \E i \in DOMAIN ret : ret[i].line = "call" /\ ret[i].indent = 3

====
